---- MODULE Spec2Model ----
(***************************************************************************)
(* Forecasting orchestration service (src/app.py): the two request         *)
(* handlers predict_demand and predict_supplier_performance, their input   *)
(* validators, the data-quality checks, regressor projection, the calls    *)
(* to the forecasting engine and the derivation of the strength metrics.   *)
(*                                                                         *)
(* One request is followed from its arrival to its response.  The request  *)
(* body and the answers the forecasting engine will give (it is an         *)
(* external collaborator) are chosen in Init; the handler's steps are      *)
(* deterministic given those.                                              *)
(*                                                                         *)
(* Numbers: calendar dates are day numbers; forecast values are counted    *)
(* in units of 1/Unit, so 1.0 is Unit; a standard deviation is a natural   *)
(* number or NaN; a strength metric is a fraction <<num, den>>.            *)
(***************************************************************************)
EXTENDS Integers, Sequences, FiniteSets, TLC

\* ---------------------------------------------------------------- bounds
MaxPeriods == 2      \* largest futurePeriods of a request
MaxPoints == 3       \* longest history of the date-only requests
MaxDay == 2          \* latest calendar day of the short histories
GapPoints == 7       \* longest history of the requests with a far point
Unit == 2            \* forecast values are counted in 1/Unit

\* ------------------------------------------------------ program constants
DensityThreshold == <<7, 10>>     \* 0.7
GapThresholdDays == 7             \* pd.Timedelta(days=7)
ConfidenceInterval == 95          \* 0.95, in percent
ClampLow == 0                     \* max(0.0, .)
ClampHigh == Unit                 \* min(1.0, .)

NaN == -1                         \* the undefined statistic / missing cell
FarDay == GapThresholdDays + 2    \* a day more than 7 days after days 0 and 1

\* ------------------------------------------------------------- utilities
Max(S) == CHOOSE x \in S : \A y \in S : y <= x
Min(S) == CHOOSE x \in S : \A y \in S : x <= y
Range(s) == {s[i] : i \in 1..Len(s)}
SeqsUpTo(S, n) == UNION {[1..k -> S] : k \in 1..n}
Const(n, v) == [i \in 1..n |-> v]

\* ------------------------------------------------------------ request data
\* A cell of a historical point: the key is missing, or its value is null,
\* a non-numeric string, or a number.
CellKinds == {"missing", "null", "str", "num"}

Point(d, y, m, i, l, q, r) ==
    [date |-> d, demand |-> y, mti |-> m, inflation |-> i, locationId |-> l,
     qualityRating |-> q, leadTimeReliability |-> r]
DPoint(d, y, m, i, l) == Point(d, y, m, i, l, "missing", "missing")
SPoint(d, q, r) == Point(d, "missing", "missing", "missing", "missing", q, r)

NotGiven == [given |-> FALSE, values |-> <<>>]
Given(vs) == [given |-> TRUE, values |-> vs]

Request(o, hk, pts, fk, fv, loc, mid, sid, fm, fi) ==
    [op |-> o,
     historicalData |-> [kind |-> hk, points |-> pts],
     futurePeriods |-> [kind |-> fk, val |-> fv],
     locationId |-> loc, modelId |-> mid, supplierId |-> sid,
     futureRegressors |-> [mti |-> fm, inflation |-> fi]]

\* --------------------------------------------------- the forecasting engine
\* What the engine will answer in this request: which call (if any) raises
\* and with what error, the value it projects for a regressor, and the
\* forecast frame of each primary predict (rows of <<yhat, lower, upper>>,
\* whether the frame has a "yearly" column, and the spread of its columns).
EngineErrors == {"ValueError", "RuntimeError"}
NoFailure == [call |-> <<"none", "none">>, error |-> "none"]
EngineVals == {-1, 0, 1, Unit, Unit + 1}
Triples == EngineVals \X EngineVals \X EngineVals
Mid == <<1, 1, 1>>
Stds == 0..2

Frame(rw, y, ys, sp, ts) ==
    [row |-> rw, yearly |-> y, yearlyStd |-> ys, spread |-> sp, trendStd |-> ts]
DefaultFrame == Frame([i \in 1..MaxPeriods |-> IF i = 1 THEN <<0, 0, 1>> ELSE Mid],
                      TRUE, 1, 2, 1)
RowFrames ==
    {Frame([i \in 1..MaxPeriods |-> IF i = k THEN t ELSE Mid], TRUE, 1, 2, 1) :
        k \in 1..MaxPeriods, t \in Triples}
StatFrames ==
    {Frame([i \in 1..MaxPeriods |-> IF i = 1 THEN <<v, 0, Unit>> ELSE Mid], y, ys, sp, ts) :
        v \in {0, 1}, y \in BOOLEAN, ys \in Stds, sp \in {1, 2}, ts \in Stds}
Frames == RowFrames \cup StatFrames

Engine(f, pv, fr) == [fail |-> f, proj |-> pv, frames |-> fr]
DefaultEngine == Engine(NoFailure, 20, <<DefaultFrame, DefaultFrame>>)
Failing(calls) ==
    {Engine([call |-> c, error |-> e], 20, <<DefaultFrame, DefaultFrame>>) :
        c \in calls, e \in EngineErrors}

\* ---------------------------------------------------------- input validator
\* isinstance checks of the request fields: list, int, str.
FieldState(d, field) ==
    CASE field = "historicalData" ->
            IF d.historicalData.kind = "missing" THEN "missing"
            ELSE IF d.historicalData.kind = "list" THEN "ok" ELSE "badtype"
      [] field = "futurePeriods" ->
            IF d.futurePeriods.kind = "missing" THEN "missing"
            ELSE IF d.futurePeriods.kind = "int" THEN "ok" ELSE "badtype"
      [] field = "supplierId" ->
            IF d.supplierId = "missing" THEN "missing"
            ELSE IF d.supplierId = "int" THEN "badtype" ELSE "ok"
      [] field = "locationId" -> IF d.locationId = "missing" THEN "missing" ELSE "ok"
      [] field = "modelId" -> IF d.modelId = "missing" THEN "missing" ELSE "ok"

FieldIssue(d, field) ==
    CASE FieldState(d, field) = "missing" -> <<"Missing required field", field>>
      [] FieldState(d, field) = "badtype" -> <<"Invalid type", field>>
      [] OTHER -> <<>>

PointHas(p, field) == IF field = "date" THEN TRUE ELSE p[field] # "missing"

PointIssue(p, field) ==
    IF PointHas(p, field) THEN <<>>
    ELSE <<"Missing required field in historicalData points", field>>

IsIssue(x) == x # <<>>

\* The body shared by validate_demand_input and
\* validate_supplier_performance_input: only the schema differs.
ValidateInput(d, required_fields, required_point_fields) ==
    LET fieldIssues ==
            SelectSeq([i \in 1..Len(required_fields) |-> FieldIssue(d, required_fields[i])],
                      IsIssue)
        pts == d.historicalData.points
    IN  IF fieldIssues # <<>> THEN fieldIssues
        ELSE IF Len(pts) = 0 THEN << <<"historicalData array is empty", "historicalData">> >>
        ELSE SelectSeq([i \in 1..Len(required_point_fields) |->
                            PointIssue(pts[1], required_point_fields[i])],
                       IsIssue)

DemandRequiredFields == <<"historicalData", "futurePeriods">>
validate_demand_input(d) ==
    ValidateInput(d, DemandRequiredFields, <<"date", "demand">>)

SupplierRequiredFields == <<"historicalData", "futurePeriods", "supplierId">>
validate_supplier_performance_input(d) ==
    ValidateInput(d, SupplierRequiredFields,
                  <<"date", "qualityRating", "leadTimeReliability">>)

\* len(data.get('historicalData', [])) in the first log line of a handler:
\* it raises TypeError when the value has no length.
LogLineRaises(d) == d.historicalData.kind = "int"

\* -------------------------------------------------------------- data frame
Dates(pts) == {pts[i].date : i \in 1..Len(pts)}
HasColumn(pts, c) == \E i \in 1..Len(pts) : pts[i][c] # "missing"
IsNullCell(k) == k \in {"missing", "null"}
AnyNull(pts, c) == \E i \in 1..Len(pts) : IsNullCell(pts[i][c])
\* pd.to_numeric(col, errors="coerce").notnull().all()
AllNumeric(pts, c) == \A i \in 1..Len(pts) : pts[i][c] = "num"

\* ------------------------------------------------------ data quality checks
date_range(pts) == Max(Dates(pts)) - Min(Dates(pts))
\* Mutant of expected_points: the day span without the + 1.
ExpectedPointsIsSpan(pts) == date_range(pts)
expected_points(pts) == date_range(pts) + 1
\* Mutant of LowDensity: the span is taken for the expected number of points.
LowDensityBySpan(pts) ==
    Len(pts) * DensityThreshold[2] < DensityThreshold[1] * date_range(pts)
\* density < 0.7, with density = len(df) / expected_points
LowDensity(pts) ==
    Len(pts) * DensityThreshold[2] < DensityThreshold[1] * expected_points(pts)
DensityIsOne(pts) == Len(pts) = expected_points(pts)

\* The dates whose distance to the previous date, after sorting, exceeds
\* seven days: the rows of large_gaps.
Previous(pts, d) == Max({e \in Dates(pts) : e < d})
GapDates(pts) ==
    {d \in Dates(pts) : d # Min(Dates(pts)) /\ d - Previous(pts, d) > GapThresholdDays}

RECURSIVE SortSet(_)
SortSet(S) == IF S = {} THEN <<>> ELSE <<Min(S)>> \o SortSet(S \ {Min(S)})

\* Row labels (0-based input positions) holding date d.
Labels(pts, d) == {i - 1 : i \in {j \in 1..Len(pts) : pts[j].date = d}}
\* sort_values is not a stable sort: among rows of one date any may come
\* first, and that row is the one whose diff() is the gap.
FirstChoices(pts) ==
    {f \in [GapDates(pts) -> 0..(Len(pts) - 1)] : \A d \in GapDates(pts) : f[d] \in Labels(pts, d)}

\* df_sorted.loc[idx - 1, "ds"]: a lookup by label; label -1 does not exist.
GapLookupRaises(idx) == idx - 1 < 0
GapLine(pts, idx) ==
    [start |-> pts[idx].date, end |-> pts[idx + 1].date,
     days |-> pts[idx + 1].date - pts[idx].date]

RECURSIVE GapLoop(_, _, _)
\* The loop over large_gaps.index of predict_demand: the lines logged and
\* whether the loop raised KeyError.
GapLoop(pts, first, ds) ==
    IF ds = <<>> THEN [lines |-> <<>>, raised |-> FALSE]
    ELSE IF GapLookupRaises(first[ds[1]]) THEN [lines |-> <<>>, raised |-> TRUE]
    ELSE LET rest == GapLoop(pts, first, Tail(ds))
         IN  [lines |-> <<GapLine(pts, first[ds[1]])>> \o rest.lines,
              raised |-> rest.raised]

\* ------------------------------------------------------- regressor projector
\* Rows predict_regressor hands to the engine: filtered to the request's
\* location when one is given and the frame has a locationId column.
ScopedRows(pts, location_id) ==
    IF location_id # "none" /\ HasColumn(pts, "locationId")
    THEN SelectSeq(pts, LAMBDA p : p.locationId = location_id)
    ELSE pts

\* The engine fits on the rows whose y is not NaN and needs two of them.
\* all_mti_data is df[["ds", "mti"]].drop_duplicates(): rows of one date
\* carry one index value, so the distinct rows are the distinct dates.
FitDates(rows, name) == {rows[i].date : i \in {j \in 1..Len(rows) : rows[j][name] = "num"}}
FittableRows(rows, name, dedup) ==
    IF dedup THEN Cardinality(FitDates(rows, name))
    ELSE Len(SelectSeq(rows, LAMBDA p : p[name] = "num"))

\* make_future_dataframe(periods) continues the fitted history (the dates
\* with a value); the forecast rows kept are those after prophet_df's last
\* date, whether or not that row had a value.
ProjectedLength(rows, name, periods) ==
    LET lastFit == Max(FitDates(rows, name))
        lastAll == Max(Dates(rows))
        kept == {lastFit + k : k \in 1..periods} \ (0..lastAll)
    IN  Cardinality(kept)

\* ----------------------------------------------------------------- responses
NoResponse == [status |-> 0]
ClientError(error, details) == [status |-> 400, error |-> error, details |-> details]
ServerError(error, details, type) ==
    [status |-> 500, error |-> error, details |-> details, type |-> type]

InvalidInput(issues) == ClientError("Invalid input data", issues)
FatalError(details, type) == ServerError("Fatal error", details, type)
\* Mutant of DataProcessingError: no clause catches what is not a ValueError.
UncaughtUnlessValueError(type, details) ==
    IF type = "ValueError" THEN ClientError("Data processing error", details)
    ELSE NoResponse
\* The except clauses of the inner try block, in their order.
DataProcessingError(type, details) ==
    IF type = "ValueError" THEN ClientError("Data processing error", details)
    ELSE ServerError("Unexpected error during data processing", details, type)

\* ---------------------------------------------------------- engine outcomes
\* A call raises what the engine's own input checks raise, else what the
\* environment decided for this request.
NoError == [type |-> "none", details |-> "none"]
Raised(type, details) == [type |-> type, details |-> details]
EngineAnswer(eng, call) ==
    IF eng.fail.call = call THEN Raised(eng.fail.error, "engine failure") ELSE NoError

FitOutcome(eng, call, usableRows, nanRegressor) ==
    IF usableRows < 2 THEN Raised("ValueError", "Dataframe has less than 2 non-NaN rows.")
    ELSE IF nanRegressor THEN Raised("ValueError", "Found NaN in column")
    ELSE EngineAnswer(eng, call)

PredictOutcome(eng, call, futureRows) ==
    IF futureRows = 0 THEN Raised("ValueError", "Dataframe has no rows.")
    ELSE EngineAnswer(eng, call)

\* Mutant of predict_regressor: the projection hands back values without
\* having asked the fitted model to predict.
ProjectorWithoutPredict(eng, pts, name, periods, location_id, dedup) ==
    [calls |-> << <<"fit", name>> >>, error |-> NoError,
     values |-> Const(periods, eng.proj)]
\* predict_regressor: the calls it makes, what it raises, what it returns.
predict_regressor(eng, pts, name, periods, location_id, dedup) ==
    LET rows == ScopedRows(pts, location_id)
        fit == FitOutcome(eng, <<"fit", name>>, FittableRows(rows, name, dedup), FALSE)
        \* the future frame keeps the history, so it is never empty
        pred == PredictOutcome(eng, <<"predict", name>>, Len(rows) + periods)
    IN  IF fit.type # "none"
        THEN [calls |-> << <<"fit", name>> >>, error |-> fit, values |-> <<>>]
        ELSE IF pred.type # "none"
        THEN [calls |-> << <<"fit", name>>, <<"predict", name>> >>, error |-> pred,
              values |-> <<>>]
        ELSE [calls |-> << <<"fit", name>>, <<"predict", name>> >>, error |-> NoError,
              values |-> Const(ProjectedLength(rows, name, periods), eng.proj)]

\* ---------------------------------------------------------- metrics, output
\* Series.std() of a forecast column: undefined for fewer than two rows.
ColumnStd(n, std) == IF n < 2 THEN NaN ELSE std
YhatStd(frame, n) ==
    IF n < 2 THEN NaN
    ELSE IF \A i \in 1..n : frame.row[i][1] = frame.row[1][1] THEN 0
    ELSE frame.spread
notnull(x) == x # NaN

\* abs(component_std / yhat_std) when both are defined and yhat_std > 0,
\* else 0.0; a fraction <<numerator, denominator>>.
Zero == <<0, 1>>
One == <<1, 1>>
Strength(component_std, yhat_std) ==
    IF notnull(component_std) /\ notnull(yhat_std) /\ yhat_std > 0
    THEN <<component_std, yhat_std>>
    ELSE Zero
\* Mutant of MinOne: the strength is not capped.
NotCapped(x) == x
\* min(x, 1.0)
MinOne(x) == IF x[1] > x[2] THEN One ELSE x
\* (a + b) / 2
Average(a, b) == <<a[1] * b[2] + b[1] * a[2], 2 * a[2] * b[2]>>
InUnitInterval(x) == x[2] > 0 /\ 0 <= x[1] /\ x[1] <= x[2]

\* The try block of predict_demand that derives both strengths: reading a
\* column the frame lacks raises KeyError, and the handler of that block
\* sets both to 0.0.
DemandStrengths(frame, n) ==
    IF ~frame.yearly THEN [seasonality |-> Zero, trend |-> Zero]
    ELSE [seasonality |-> Strength(ColumnStd(n, frame.yearlyStd), YhatStd(frame, n)),
          trend |-> Strength(ColumnStd(n, frame.trendStd), YhatStd(frame, n))]

\* One series of predict_supplier_performance: each strength is min(1.0, .).
SeriesStrengths(frame, n) ==
    [seasonality |-> MinOne(Strength(ColumnStd(n, frame.yearlyStd), YhatStd(frame, n))),
     trend |-> MinOne(Strength(ColumnStd(n, frame.trendStd), YhatStd(frame, n)))]
SupplierStrengths(qframe, lframe, n) ==
    IF ~qframe.yearly \/ ~lframe.yearly THEN [seasonality |-> Zero, trend |-> Zero]
    ELSE [seasonality |-> Average(SeriesStrengths(qframe, n).seasonality,
                                  SeriesStrengths(lframe, n).seasonality),
          trend |-> Average(SeriesStrengths(qframe, n).trend,
                            SeriesStrengths(lframe, n).trend)]

\* Mutant of Clamp: only the upper limit is applied.
ClampAbove(v) == IF v > ClampHigh THEN ClampHigh ELSE v
\* min(1.0, max(0.0, v))
Clamp(v) ==
    LET lo == IF v < ClampLow THEN ClampLow ELSE v
    IN  IF lo > ClampHigh THEN ClampHigh ELSE lo
PassThrough(v) == v

\* The rows of a forecast frame as the response carries them; the frame's
\* dates are the n days after the last date the model was fitted on.
\* Mutant of DemandRow: the future frame starts at the last historical date.
DemandRowWithHistory(frame, last, i) ==
    [date |-> last + i - 1, value |-> frame.row[i][1],
     lower |-> frame.row[i][2], upper |-> frame.row[i][3]]
DemandRow(frame, last, i) ==
    [date |-> last + i, value |-> PassThrough(frame.row[i][1]),
     lower |-> PassThrough(frame.row[i][2]), upper |-> PassThrough(frame.row[i][3])]
SupplierRow(frame, last, i) ==
    [date |-> last + i, value |-> Clamp(frame.row[i][1]),
     lower |-> Clamp(frame.row[i][2]), upper |-> Clamp(frame.row[i][3])]

\* ------------------------------------------------------------------- state
VARIABLES
    data,               \* request.json
    engine,             \* what the forecasting engine answers in this request
    pc,                 \* the stage the handler is at
    validation_issues,  \* the validator's issue list
    warnings,           \* warnings and errors logged by the quality checks
    gaps,               \* gap diagnostics: number found, lines logged
    regressors_added,   \* names passed to model.add_regressor
    future_regressors,  \* the dict name -> future values, in insertion order
    sub_series,         \* supplier: the cleaned frames handed to fit
    calls,              \* the engine calls made so far, in order
    forecast,           \* the frames predict returned
    forecast_result,    \* the formatted rows, one list per frame
    strengths,          \* seasonality and trend strength
    response,           \* the response returned, NoResponse until then
    fig,                \* the figure the handler is plotting on
    plot_url,           \* the images saved so far, one per forecast
    pyplot,             \* matplotlib.pyplot's figures, one registry per process
    sched               \* the server's threads: the handler suspended meanwhile

vars == <<data, engine, pc, validation_issues, warnings, gaps, regressors_added,
          future_regressors, sub_series, calls, forecast, forecast_result,
          strengths, response, fig, plot_url, pyplot, sched>>

\* The locals of one handler, as a record: what a thread keeps while another
\* one runs.
Context ==
    [data |-> data, engine |-> engine, pc |-> pc,
     validation_issues |-> validation_issues, warnings |-> warnings, gaps |-> gaps,
     regressors_added |-> regressors_added, future_regressors |-> future_regressors,
     sub_series |-> sub_series, calls |-> calls, forecast |-> forecast,
     forecast_result |-> forecast_result, strengths |-> strengths,
     response |-> response, fig |-> fig, plot_url |-> plot_url]
Holds(ctx) ==
    /\ data = ctx.data /\ engine = ctx.engine /\ pc = ctx.pc
    /\ validation_issues = ctx.validation_issues /\ warnings = ctx.warnings
    /\ gaps = ctx.gaps /\ regressors_added = ctx.regressors_added
    /\ future_regressors = ctx.future_regressors /\ sub_series = ctx.sub_series
    /\ calls = ctx.calls /\ forecast = ctx.forecast
    /\ forecast_result = ctx.forecast_result /\ strengths = ctx.strengths
    /\ response = ctx.response /\ fig = ctx.fig /\ plot_url = ctx.plot_url
Load(ctx) ==
    /\ data' = ctx.data /\ engine' = ctx.engine /\ pc' = ctx.pc
    /\ validation_issues' = ctx.validation_issues /\ warnings' = ctx.warnings
    /\ gaps' = ctx.gaps /\ regressors_added' = ctx.regressors_added
    /\ future_regressors' = ctx.future_regressors /\ sub_series' = ctx.sub_series
    /\ calls' = ctx.calls /\ forecast' = ctx.forecast
    /\ forecast_result' = ctx.forecast_result /\ strengths' = ctx.strengths
    /\ response' = ctx.response /\ fig' = ctx.fig /\ plot_url' = ctx.plot_url

Terminal == {"Done", "Rejected", "Failed"}
StageOf(resp) ==
    IF resp.status = 400 THEN "Rejected" ELSE IF resp.status = 500 THEN "Failed" ELSE "Done"

\* ----------------------------------------------------------------- requests
GoodPoint(d) == DPoint(d, "num", "missing", "missing", "missing")
GoodHistory == <<GoodPoint(0), GoodPoint(1)>>
SGoodPoint(d) == SPoint(d, "num", "num")
SGoodHistory == <<SGoodPoint(0), SGoodPoint(1)>>

FpChoices == {<<"missing", 0>>, <<"str", 0>>} \cup {<<"int", n>> : n \in 0..MaxPeriods}
HdChoices(good, sparse, firstPartial) ==
    {<<"missing", <<>> >>, <<"int", <<>> >>, <<"str", <<>> >>, <<"list", <<>> >>,
     <<"list", good>>, <<"list", sparse>>, <<"list", firstPartial>>}

DemandRequest(pts, n, fm, fi) ==
    Request("demand", "list", pts, "int", n, "L1", "M1", "missing", fm, fi)
SupplierRequest(pts, n) ==
    Request("supplier", "list", pts, "int", n, "missing", "missing", "S1", NotGiven, NotGiven)

\* Requests that vary the request-level fields.
DemandSchemaRequests ==
    {Request("demand", h[1], h[2], f[1], f[2], loc, mid, "missing", NotGiven, NotGiven) :
        h \in HdChoices(GoodHistory, <<GoodPoint(0), GoodPoint(MaxDay)>>,
                        <<DPoint(0, "missing", "missing", "missing", "missing"), GoodPoint(1)>>),
        f \in FpChoices, loc \in {"missing", "L1"}, mid \in {"missing", "M1"}}
SupplierSchemaRequests ==
    {Request("supplier", h[1], h[2], f[1], f[2], "missing", "missing", sid, NotGiven, NotGiven) :
        h \in HdChoices(SGoodHistory, <<SGoodPoint(0), SGoodPoint(MaxDay)>>,
                        <<SPoint(0, "num", "missing"), SGoodPoint(1)>>),
        f \in FpChoices, sid \in {"missing", "int", "S1"}}

\* Histories that vary the dates: short ones over days 0..MaxDay, and longer
\* ones over day 0 and a day more than seven days later.
DateSeqs == SeqsUpTo(0..MaxDay, MaxPoints)
GapSeqs == SeqsUpTo({0, FarDay}, GapPoints)
DateRequests ==
    {DemandRequest([i \in 1..Len(s) |-> GoodPoint(s[i])], n, NotGiven, NotGiven) :
        s \in DateSeqs, n \in 1..MaxPeriods}
    \cup {DemandRequest([i \in 1..Len(s) |-> GoodPoint(s[i])], 1, NotGiven, NotGiven) :
        s \in GapSeqs}
SupplierDateRequests ==
    {SupplierRequest([i \in 1..Len(s) |-> SGoodPoint(s[i])], n) :
        s \in DateSeqs, n \in 1..MaxPeriods}
    \cup {SupplierRequest([i \in 1..Len(s) |-> SGoodPoint(s[i])], 1) : s \in GapSeqs}

\* Histories that vary the measured values.
CellRequests ==
    {DemandRequest([i \in 1..Len(s) |-> DPoint(s[i][1], s[i][2], "missing", "missing", "missing")],
                   1, NotGiven, NotGiven) :
        s \in SeqsUpTo((0..MaxDay) \X CellKinds, 2)}
SupplierCellRequests ==
    {SupplierRequest([i \in 1..MaxPoints |-> SPoint(i - 1, s[i][1], s[i][2])], n) :
        s \in [1..MaxPoints -> {"null", "str", "num"} \X {"null", "str", "num"}],
        n \in {1}}

\* Histories that vary the regressor columns, with and without caller-supplied
\* future values (of the right and of a wrong length).
RegPointTypes ==
    {<<"missing", "missing", "missing">>, <<"num", "missing", "missing">>,
     <<"missing", "num", "missing">>, <<"num", "num", "missing">>,
     <<"num", "num", "L1">>, <<"num", "num", "L2">>}
RegHistories ==
    {[i \in 1..3 |-> DPoint(i - 1, "num", t[i][1], t[i][2], t[i][3])] :
        t \in [1..3 -> RegPointTypes]}
FullRegHistory == [i \in 1..3 |-> DPoint(i - 1, "num", "num", "num", "L1")]
Supplied(n, v) ==
    {NotGiven, Given(Const(n, v)), Given(Const(n + 1, v))}
    \cup (IF n > 0 THEN {Given(Const(n - 1, v))} ELSE {})
RegressorRequests ==
    {DemandRequest(h, n[1], n[2], n[3]) :
        h \in RegHistories,
        n \in UNION {{k} \X Supplied(k, 10) \X {NotGiven, Given(Const(k, 11))} :
                        k \in 1..MaxPeriods}}
FullRegressorRequests ==
    {DemandRequest(FullRegHistory, n[1], n[2], NotGiven) :
        n \in UNION {{k} \X Supplied(k, 10) : k \in 1..MaxPeriods}}

\* The request and the engine's answers, together.
DemandCalls ==
    {<<"fit", "mti">>, <<"predict", "mti">>, <<"fit", "inflation">>,
     <<"predict", "inflation">>, <<"fit", "demand">>, <<"predict", "demand">>}
SupplierCalls ==
    {<<"fit", "qualityRating">>, <<"predict", "qualityRating">>,
     <<"fit", "leadTimeReliability">>, <<"predict", "leadTimeReliability">>}
SupplierFrames == {f \in Frames : f.yearly}
Scenarios ==
    ((DemandSchemaRequests \cup SupplierSchemaRequests \cup DateRequests
        \cup SupplierDateRequests \cup CellRequests \cup SupplierCellRequests
        \cup RegressorRequests) \X {DefaultEngine})
    \cup (FullRegressorRequests \X Failing(DemandCalls))
    \cup ({DemandRequest(GoodHistory, n, NotGiven, NotGiven) : n \in 1..MaxPeriods}
            \X {Engine(NoFailure, 20, <<f, DefaultFrame>>) : f \in Frames})
    \cup ({SupplierRequest(SGoodHistory, n) : n \in 1..MaxPeriods}
            \X (Failing(SupplierCalls)
                \cup {Engine(NoFailure, 20, <<f, DefaultFrame>>) : f \in SupplierFrames}
                \cup {Engine(NoFailure, 20, <<DefaultFrame, f>>) : f \in SupplierFrames}))

\* A handler at its first statement.
NoFigure == [num |-> 0, id |-> 0]
Started(d, e) ==
    [data |-> d, engine |-> e, pc |-> "Validating",
     validation_issues |-> <<>>, warnings |-> <<>>,
     gaps |-> [found |-> 0, lines |-> <<>>],
     regressors_added |-> <<>>, future_regressors |-> <<>>,
     sub_series |-> <<>>, calls |-> <<>>, forecast |-> <<>>,
     forecast_result |-> <<>>, strengths |-> [seasonality |-> Zero, trend |-> Zero],
     response |-> NoResponse, fig |-> NoFigure, plot_url |-> <<>>]
\* pyplot after import: no figure registered, none created.
NoFigures == [figs |-> {}, canvases |-> <<>>]
\* One request, no other handler in the process.
OneHandler ==
    [phase |-> "single", running |-> 1, parked |-> [pc |-> "Done"], alone |-> NoResponse]

Init ==
    /\ \E sc \in Scenarios : Holds(Started(sc[1], sc[2]))
    /\ pyplot = NoFigures
    /\ sched = OneHandler

\* ------------------------------------------------------------ handler steps
Finish(resp) == response' = resp /\ pc' = StageOf(resp)
Continue(stage) == pc' = stage /\ UNCHANGED response
\* An exception raised inside the inner try block ends the request with the
\* response of the except clause that catches it; no exception, next stage.
Proceed(error, stage) ==
    IF error.type # "none" THEN Finish(DataProcessingError(error.type, error.details))
    ELSE Continue(stage)

FuturePeriods == data.futurePeriods.val
History == data.historicalData.points
Lookup(name) ==
    LET hits == SelectSeq(future_regressors, LAMBDA e : e[1] = name)
    IN  IF hits = <<>> THEN <<>> ELSE hits[Len(hits)][2]
Keys(dict) == [i \in 1..Len(dict) |-> dict[i][1]]

\* predict_demand, lines 109-128: log line, validation, required identifiers.
Validate ==
    /\ pc = "Validating" /\ data.op = "demand"
    /\ IF LogLineRaises(data)
       THEN /\ Finish(FatalError("object of type 'int' has no len()", "TypeError"))
            /\ UNCHANGED validation_issues
       ELSE /\ validation_issues' = validate_demand_input(data)
            /\ IF validate_demand_input(data) # <<>>
               THEN Finish(InvalidInput(validate_demand_input(data)))
               ELSE IF data.locationId = "missing"
               THEN Finish(FatalError("'locationId'", "KeyError"))
               ELSE IF data.modelId = "missing"
               THEN Finish(FatalError("'modelId'", "KeyError"))
               ELSE Continue("QualityChecking")
    /\ UNCHANGED <<fig, plot_url, pyplot, sched>>
    /\ UNCHANGED <<data, engine, warnings, gaps, regressors_added, future_regressors,
                   sub_series, calls, forecast, forecast_result, strengths>>

\* predict_demand, lines 131-192: target checks, density gate, gap log.
CheckQuality ==
    /\ pc = "QualityChecking" /\ data.op = "demand"
    /\ IF AnyNull(History, "demand")
       THEN /\ Finish(ClientError("Missing demand values detected", "rows with missing demand"))
            /\ UNCHANGED gaps
       ELSE IF ~AllNumeric(History, "demand")
       THEN /\ Finish(ClientError("Non-numeric demand values detected",
                                  "All demand values must be numeric"))
            /\ UNCHANGED gaps
       ELSE IF LowDensity(History)
       THEN /\ Finish(ClientError("Insufficient data density", "Need at least 70% coverage."))
            /\ UNCHANGED gaps
       ELSE \E first \in FirstChoices(History) :
              LET loop == GapLoop(History, first, SortSet(GapDates(History)))
              IN  /\ gaps' = [found |-> Cardinality(GapDates(History)), lines |-> loop.lines]
                  /\ Proceed(IF loop.raised THEN Raised("KeyError", "-1") ELSE NoError,
                             "ProjectingMti")
    /\ UNCHANGED <<fig, plot_url, pyplot, sched>>
    /\ UNCHANGED <<data, engine, validation_issues, warnings, regressors_added,
                   future_regressors, sub_series, calls, forecast, forecast_result, strengths>>

\* futureRegressors of the request holds values for the regressor.
CallerSupplied(name) == data.futureRegressors[name].given
\* Mutant of UsesSupplied: the caller's values are ignored.
SuppliedIgnored(name) == FALSE
\* Whether predict_demand takes the caller's values instead of projecting.
UsesSupplied(name) == name = "mti" /\ CallerSupplied(name)

\* predict_demand, lines 202-228: one regressor block.  The mti block takes
\* the caller's future values when given and projects over all rows; the
\* inflation block always projects, scoped to the request's location.
ResolveRegressor(name, stage) ==
    IF ~HasColumn(History, name)
    THEN /\ Continue(stage)
         /\ UNCHANGED <<regressors_added, future_regressors, calls>>
    ELSE /\ regressors_added' = Append(regressors_added, name)
         /\ IF UsesSupplied(name)
            THEN /\ future_regressors' =
                        Append(future_regressors, <<name, data.futureRegressors[name].values>>)
                 /\ Continue(stage)
                 /\ UNCHANGED calls
            ELSE LET r == predict_regressor(engine, History, name, FuturePeriods,
                                            IF name = "mti" THEN "none" ELSE data.locationId,
                                            name = "mti")
                 IN  /\ calls' = calls \o r.calls
                     /\ future_regressors' =
                            IF r.error.type = "none"
                            THEN Append(future_regressors, <<name, r.values>>)
                            ELSE future_regressors
                     /\ Proceed(r.error, stage)

ProjectMti ==
    /\ pc = "ProjectingMti"
    /\ ResolveRegressor("mti", "ProjectingInflation")
    /\ UNCHANGED <<fig, plot_url, pyplot, sched>>
    /\ UNCHANGED <<data, engine, validation_issues, warnings, gaps, sub_series,
                   forecast, forecast_result, strengths>>

ProjectInflation ==
    /\ pc = "ProjectingInflation"
    /\ ResolveRegressor("inflation", "Fitting")
    /\ UNCHANGED <<fig, plot_url, pyplot, sched>>
    /\ UNCHANGED <<data, engine, validation_issues, warnings, gaps, sub_series,
                   forecast, forecast_result, strengths>>

\* predict_demand, lines 233-236: the primary fit, on the frame with the
\* regressor columns.
Fit ==
    /\ pc = "Fitting"
    /\ calls' = Append(calls, <<"fit", "demand">>)
    /\ Proceed(FitOutcome(engine, <<"fit", "demand">>, Len(History),
                          \E i \in 1..Len(regressors_added) :
                              AnyNull(History, regressors_added[i])),
               "Predicting")
    /\ UNCHANGED <<fig, plot_url, pyplot, sched>>
    /\ UNCHANGED <<data, engine, validation_issues, warnings, gaps, regressors_added,
                   future_regressors, sub_series, forecast, forecast_result, strengths>>

\* future[regressor_name] = regressor_values raises ValueError when the list
\* and the frame differ in length.
Mismatched(dict, n) == {i \in 1..Len(dict) : Len(dict[i][2]) # n}
\* Mutant of AttachOutcome: a mismatch is logged and the values attached.
AttachLogsOnly(dict, n) == NoError
AttachOutcome(dict, n) ==
    IF Mismatched(dict, n) # {}
    THEN Raised("ValueError", "Length of values does not match length of index")
    ELSE NoError

DemandRows(frame, last, n) == [i \in 1..n |-> DemandRow(frame, last, i)]

\* predict_demand, lines 238-280: the future frame, the regressor columns
\* and the primary predict.
Predict ==
    /\ pc = "Predicting"
    /\ LET attach == AttachOutcome(future_regressors, FuturePeriods)
           pred == PredictOutcome(engine, <<"predict", "demand">>, FuturePeriods)
           last == Max(Dates(History))
       IN  IF attach.type # "none"
           THEN /\ Proceed(attach, "Plotting")
                /\ warnings' = Append(warnings, "Mismatch in lengths")
                /\ UNCHANGED <<calls, forecast>>
           ELSE /\ calls' = Append(calls, <<"predict", "demand">>)
                /\ Proceed(pred, "Plotting")
                /\ UNCHANGED warnings
                /\ forecast' =
                       IF pred.type # "none" THEN forecast
                       ELSE <<[frame |-> engine.frames[1], n |-> FuturePeriods,
                               last |-> last]>>
    /\ UNCHANGED <<fig, plot_url, pyplot, sched>>
    /\ UNCHANGED <<data, engine, validation_issues, gaps, regressors_added,
                   future_regressors, sub_series, forecast_result, strengths>>

\* predict_demand, lines 303-324.
DeriveMetrics ==
    /\ pc = "DerivingMetrics" /\ data.op = "demand"
    /\ strengths' = DemandStrengths(forecast[1].frame, forecast[1].n)
    /\ Continue("AssemblingResponse")
    /\ UNCHANGED <<fig, plot_url, pyplot, sched>>
    /\ UNCHANGED <<data, engine, validation_issues, warnings, gaps, regressors_added,
                   future_regressors, sub_series, calls, forecast, forecast_result>>

DemandBody ==
    [status |-> 200,
     forecast |-> forecast_result[1],
     plot |-> plot_url[1],
     locationId |-> data.locationId,
     modelId |-> data.modelId,
     metadata |-> [confidenceInterval |-> ConfidenceInterval,
                   seasonalityStrength |-> MinOne(strengths.seasonality),
                   trendStrength |-> MinOne(strengths.trend)],
     futureRegressors |-> [mti |-> Lookup("mti"), inflation |-> Lookup("inflation")],
     debugInfo |-> [dataPoints |-> Len(History),
                    dateRange |-> [start |-> Min(Dates(History)), end |-> Max(Dates(History))],
                    regressorsUsed |-> regressors_added,
                    futurePeriods |-> FuturePeriods,
                    generatedRegressors |-> Keys(future_regressors)]]

\* predict_demand, lines 326-352.
AssembleResponse ==
    /\ pc = "AssemblingResponse" /\ data.op = "demand"
    /\ Finish(DemandBody)
    /\ UNCHANGED <<fig, plot_url, pyplot, sched>>
    /\ UNCHANGED <<data, engine, validation_issues, warnings, gaps, regressors_added,
                   future_regressors, sub_series, calls, forecast, forecast_result, strengths>>

DemandNext ==
    \/ Validate \/ CheckQuality \/ ProjectMti \/ ProjectInflation
    \/ Fit \/ Predict \/ DeriveMetrics \/ AssembleResponse

\* predict_supplier_performance, lines 423-442.
SupplierValidate ==
    /\ pc = "Validating" /\ data.op = "supplier"
    /\ IF LogLineRaises(data)
       THEN /\ Finish(FatalError("object of type 'int' has no len()", "TypeError"))
            /\ UNCHANGED validation_issues
       ELSE /\ validation_issues' = validate_supplier_performance_input(data)
            /\ IF validate_supplier_performance_input(data) # <<>>
               THEN Finish(InvalidInput(validate_supplier_performance_input(data)))
               ELSE Continue("QualityChecking")
    /\ UNCHANGED <<fig, plot_url, pyplot, sched>>
    /\ UNCHANGED <<data, engine, warnings, gaps, regressors_added, future_regressors,
                   sub_series, calls, forecast, forecast_result, strengths>>

\* predict_supplier_performance, lines 444-471: low density and gaps are
\* logged, nothing more.
SupplierCheckQuality ==
    /\ pc = "QualityChecking" /\ data.op = "supplier"
    /\ warnings' = IF LowDensity(History) THEN Append(warnings, "Low data density")
                   ELSE warnings
    /\ gaps' = [found |-> Cardinality(GapDates(History)), lines |-> <<>>]
    /\ Continue("FittingQuality")
    /\ UNCHANGED <<fig, plot_url, pyplot, sched>>
    /\ UNCHANGED <<data, engine, validation_issues, regressors_added, future_regressors,
                   sub_series, calls, forecast, forecast_result, strengths>>

SupplierRows(frame, last, n) == [i \in 1..n |-> SupplierRow(frame, last, i)]

\* The cleaning of one quantity's frame: rows with a null value are dropped,
\* then the values are coerced to numbers and the rows that fail are dropped.
DropNull(pts, c) == SelectSeq(pts, LAMBDA p : ~IsNullCell(p[c]))
\* Mutant of Clean: a row is dropped when either quantity's value is unusable.
CleanJointly(pts, c) ==
    SelectSeq(pts, LAMBDA p : p.qualityRating = "num" /\ p.leadTimeReliability = "num")
Clean(pts, c) ==
    IF AllNumeric(DropNull(pts, c), c) THEN DropNull(pts, c)
    ELSE SelectSeq(DropNull(pts, c), LAMBDA p : p[c] = "num")
CleaningWarnings(pts, c) ==
    (IF AnyNull(pts, c) THEN <<"null values">> ELSE <<>>)
    \o (IF AllNumeric(DropNull(pts, c), c) THEN <<>> ELSE <<"non-numeric values">>)

\* predict_supplier_performance, lines 477-501 and 532-556: clean and fit.
FitSeries(c, stage) ==
    /\ warnings' = warnings \o CleaningWarnings(History, c)
    /\ sub_series' = Append(sub_series, Clean(History, c))
    /\ calls' = Append(calls, <<"fit", c>>)
    /\ Proceed(FitOutcome(engine, <<"fit", c>>, Len(Clean(History, c)), FALSE), stage)

\* predict_supplier_performance, lines 503-511 and 558-566: predict the
\* horizon after the fitted frame's last date.
PredictSeries(c, k) ==
    LET pred == PredictOutcome(engine, <<"predict", c>>, FuturePeriods)
        last == Max(Dates(sub_series[k]))
    IN  /\ calls' = Append(calls, <<"predict", c>>)
        /\ Proceed(pred, "Plotting")
        /\ forecast' =
               IF pred.type # "none" THEN forecast
               ELSE Append(forecast, [frame |-> engine.frames[k],
                                      n |-> FuturePeriods, last |-> last])

FitQuality ==
    /\ pc = "FittingQuality"
    /\ FitSeries("qualityRating", "PredictingQuality")
    /\ UNCHANGED <<fig, plot_url, pyplot, sched>>
    /\ UNCHANGED <<data, engine, validation_issues, gaps, regressors_added,
                   future_regressors, forecast, forecast_result, strengths>>

PredictQuality ==
    /\ pc = "PredictingQuality"
    /\ PredictSeries("qualityRating", 1)
    /\ UNCHANGED <<fig, plot_url, pyplot, sched>>
    /\ UNCHANGED <<data, engine, validation_issues, warnings, gaps, regressors_added,
                   future_regressors, sub_series, forecast_result, strengths>>

FitLeadTime ==
    /\ pc = "FittingLeadTime"
    /\ FitSeries("leadTimeReliability", "PredictingLeadTime")
    /\ UNCHANGED <<fig, plot_url, pyplot, sched>>
    /\ UNCHANGED <<data, engine, validation_issues, gaps, regressors_added,
                   future_regressors, forecast, forecast_result, strengths>>

PredictLeadTime ==
    /\ pc = "PredictingLeadTime"
    /\ PredictSeries("leadTimeReliability", 2)
    /\ UNCHANGED <<fig, plot_url, pyplot, sched>>
    /\ UNCHANGED <<data, engine, validation_issues, warnings, gaps, regressors_added,
                   future_regressors, sub_series, forecast_result, strengths>>

\* ----------------------------------------------------------------- plotting
\* model.plot(forecast) asks pyplot for a new figure and draws the forecast on
\* it; the handler saves the figure as an image and closes it.  pyplot keeps
\* the open figures of the whole process in one registry, by number.
get_fignums(py) == {m.num : m \in py.figs}
next_num(py) == IF get_fignums(py) = {} THEN 1 ELSE Max(get_fignums(py)) + 1
get_fig_manager(py, num) == {m \in py.figs : m.num = num}
\* plt.close(fig): the registry forgets the figure; the object lives on
\* for whoever holds it.
close(py, f) == [py EXCEPT !.figs = {m \in @ : m.id # f.id}]

\* What the handler does after a plot: the next forecast, or the metrics.
AfterPlot ==
    IF data.op = "supplier" /\ Len(forecast) = 1 THEN "FittingLeadTime"
    ELSE "DerivingMetrics"
FormattedRows ==
    LET f == forecast[Len(forecast)]
    IN  IF data.op = "demand" THEN DemandRows(f.frame, f.last, f.n)
        ELSE SupplierRows(f.frame, f.last, f.n)

\* pyplot.figure(), first half: the number of the new figure is one above
\* the numbers registered now.
NumberFigure ==
    /\ pc = "Plotting"
    /\ fig' = [num |-> next_num(pyplot), id |-> 0]
    /\ Continue("Opening")
    /\ UNCHANGED <<plot_url, pyplot, sched>>
    /\ UNCHANGED <<data, engine, validation_issues, warnings, gaps, regressors_added,
                   future_regressors, sub_series, calls, forecast, forecast_result, strengths>>

\* pyplot.figure(), second half, and the drawing: a figure registered under
\* that number is returned as it is, otherwise a figure is created and
\* registered; the forecast is drawn on the figure returned.
OpenFigure ==
    /\ pc = "Opening"
    /\ LET drawing == forecast[Len(forecast)]
           known == get_fig_manager(pyplot, fig.num)
           created == Len(pyplot.canvases) + 1
       IN  IF known # {}
           THEN /\ fig' = CHOOSE m \in known : TRUE
                /\ pyplot' = [pyplot EXCEPT
                                 !.canvases[(CHOOSE m \in known : TRUE).id] =
                                     Append(@, drawing)]
           ELSE /\ fig' = [num |-> fig.num, id |-> created]
                /\ pyplot' = [figs |-> pyplot.figs \cup {[num |-> fig.num, id |-> created]},
                              canvases |-> Append(pyplot.canvases, <<drawing>>)]
    /\ Continue("Saving")
    /\ UNCHANGED <<plot_url, sched>>
    /\ UNCHANGED <<data, engine, validation_issues, warnings, gaps, regressors_added,
                   future_regressors, sub_series, calls, forecast, forecast_result, strengths>>

\* fig.savefig, plt.close(fig), and the formatting of the forecast's rows:
\* predict_demand, lines 285-301; predict_supplier_performance, lines
\* 515-530 and 570-585.
SaveFigure ==
    /\ pc = "Saving"
    /\ plot_url' = Append(plot_url, pyplot.canvases[fig.id])
    /\ pyplot' = close(pyplot, fig)
    /\ forecast_result' = Append(forecast_result, FormattedRows)
    /\ Continue(AfterPlot)
    /\ UNCHANGED <<fig, sched>>
    /\ UNCHANGED <<data, engine, validation_issues, warnings, gaps, regressors_added,
                   future_regressors, sub_series, calls, forecast, strengths>>

PlotNext == NumberFigure \/ OpenFigure \/ SaveFigure

\* predict_supplier_performance, lines 587-627.
SupplierDeriveMetrics ==
    /\ pc = "DerivingMetrics" /\ data.op = "supplier"
    /\ strengths' = SupplierStrengths(forecast[1].frame, forecast[2].frame, FuturePeriods)
    /\ Continue("AssemblingResponse")
    /\ UNCHANGED <<fig, plot_url, pyplot, sched>>
    /\ UNCHANGED <<data, engine, validation_issues, warnings, gaps, regressors_added,
                   future_regressors, sub_series, calls, forecast, forecast_result>>

SupplierBody ==
    [status |-> 200,
     supplierId |-> data.supplierId,
     qualityForecast |-> forecast_result[1],
     leadTimeForecast |-> forecast_result[2],
     metadata |-> [confidenceInterval |-> ConfidenceInterval,
                   seasonalityStrength |-> strengths.seasonality,
                   trendStrength |-> strengths.trend],
     plots |-> [quality |-> plot_url[1], leadTime |-> plot_url[2]],
     debugInfo |-> [dataPoints |-> Len(History),
                    dateRange |-> [start |-> Min(Dates(History)), end |-> Max(Dates(History))],
                    futurePeriods |-> FuturePeriods]]

\* predict_supplier_performance, lines 629-654.
SupplierAssembleResponse ==
    /\ pc = "AssemblingResponse" /\ data.op = "supplier"
    /\ Finish(SupplierBody)
    /\ UNCHANGED <<fig, plot_url, pyplot, sched>>
    /\ UNCHANGED <<data, engine, validation_issues, warnings, gaps, regressors_added,
                   future_regressors, sub_series, calls, forecast, forecast_result, strengths>>

SupplierNext ==
    \/ SupplierValidate \/ SupplierCheckQuality \/ FitQuality \/ PredictQuality
    \/ FitLeadTime \/ PredictLeadTime \/ SupplierDeriveMetrics \/ SupplierAssembleResponse

Next == DemandNext \/ SupplierNext \/ PlotNext

Spec == Init /\ [][Next]_vars
\* A handler is straight-line code: a step that can be taken is taken.
FairSpec == Spec /\ WF_vars(Next)

\* ------------------------------------------------------ concurrent requests
\* app.run serves each request on a thread of its own, in one process.  The
\* variables above are the locals of the handler that is running;
\* sched.parked keeps the locals of the handler that is suspended, and a
\* thread switch exchanges the two.  pyplot belongs to the process.  To
\* compare a response with the one the same request gets alone, the first
\* request is served alone first (sched.alone keeps its response), then the
\* process starts afresh and serves it together with the second request.
OtherFrame ==
    Frame([i \in 1..MaxPeriods |-> <<Unit + 1, -1, Unit + 1>>], TRUE, 1, 2, 1)
ConcurrentScenarios ==
    {<<DemandRequest(FullRegHistory, 1, NotGiven, NotGiven), DefaultEngine>>,
     <<DemandRequest(FullRegHistory, MaxPeriods, Given(Const(MaxPeriods, 10)), NotGiven),
       Engine(NoFailure, 20, <<OtherFrame, DefaultFrame>>)>>,
     <<DemandRequest(<<GoodPoint(0), GoodPoint(MaxDay)>>, 1, NotGiven, NotGiven),
       DefaultEngine>>,
     <<DemandRequest(GoodHistory, 1, NotGiven, NotGiven),
       Engine([call |-> <<"predict", "demand">>, error |-> "RuntimeError"], 20,
              <<DefaultFrame, DefaultFrame>>)>>,
     <<Request("demand", "list", GoodHistory, "missing", 0, "L1", "M1", "missing",
               NotGiven, NotGiven), DefaultEngine>>,
     <<SupplierRequest(SGoodHistory, 1), DefaultEngine>>,
     <<SupplierRequest(<<SPoint(0, "num", "num"), SPoint(1, "null", "num"),
                         SPoint(2, "num", "str"), SPoint(3, "num", "num")>>, MaxPeriods),
       Engine(NoFailure, 20, <<DefaultFrame, OtherFrame>>)>>}

ConcurrentInit ==
    /\ \E a \in ConcurrentScenarios, b \in ConcurrentScenarios :
         /\ Holds(Started(a[1], a[2]))
         /\ sched = [phase |-> "alone", running |-> 1,
                     parked |-> Started(b[1], b[2]), alone |-> NoResponse]
    /\ pyplot = NoFigures

\* The first request has been answered alone: a fresh process takes it again,
\* this time with the second request.
ServeTogether ==
    /\ sched.phase = "alone" /\ pc \in Terminal
    /\ Load(Started(data, engine))
    /\ pyplot' = NoFigures
    /\ sched' = [sched EXCEPT !.phase = "together", !.alone = response]

\* The interpreter suspends the running handler and resumes the other one.
Switch ==
    /\ sched.phase = "together" /\ sched.parked.pc \notin Terminal
    /\ Load(sched.parked)
    /\ sched' = [sched EXCEPT !.parked = Context, !.running = 3 - @]
    /\ UNCHANGED pyplot

ConcurrentNext == Next \/ ServeTogether \/ Switch
ConcurrentSpec == ConcurrentInit /\ [][ConcurrentNext]_vars

\* ================================================================== claims
Responded == response.status # 0
Ended == pc \in Terminal
EngineInvoked == calls # <<>>
Called(kind, name) == <<kind, name>> \in Range(calls)
RequiredRequestFields ==
    IF data.op = "demand"
    THEN {"historicalData", "futurePeriods", "locationId", "modelId"}
    ELSE {"historicalData", "futurePeriods", "supplierId"}
\* The request reaches the validator and passes it.
ValidatorPasses ==
    /\ ~LogLineRaises(data)
    /\ IF data.op = "demand" THEN validate_demand_input(data) = <<>>
       ELSE validate_supplier_performance_input(data) = <<>>
\* ... and carries every field the handler reads.
SchemaValid ==
    ValidatorPasses /\ \A f \in RequiredRequestFields : FieldState(data, f) = "ok"
\* density = (number of points) / (day span + 1) is below 0.7
DensityBelowThreshold ==
    10 * Len(History) < 7 * ((Max(Dates(History)) - Min(Dates(History))) + 1)
TargetClean == ~AnyNull(History, "demand") /\ AllNumeric(History, "demand")

\* C1: a request missing a required request field ends with a 400 response,
\* the issue list names the missing field, and the engine is not invoked.
C1_MissingFieldRejected ==
    \A f \in RequiredRequestFields :
        (Ended /\ FieldState(data, f) = "missing")
            => /\ <<"Missing required field", f>> \in Range(validation_issues)
               /\ response.status = 400
               /\ ~EngineInvoked

\* C2 as stated: every schema-valid demand request of density below 0.7 ends
\* with the 400 response citing insufficient density, without forecast or
\* engine call; a supplier request of low density is not ended by it.
C2_LowDensityAlwaysCited ==
    (Ended /\ SchemaValid /\ DensityBelowThreshold)
        => IF data.op = "demand"
           THEN /\ response.status = 400
                /\ response.error = "Insufficient data density"
                /\ ~EngineInvoked /\ forecast_result = <<>>
           ELSE EngineInvoked

\* C2 amended: a demand request of density below 0.7 that passes the validator
\* ends with an error response, without forecast or engine call.  With
\* locationId and modelId present it is a 400 response, citing insufficient
\* density when every demand value is present and numeric, and the missing
\* or non-numeric demand values otherwise, those checks coming first; with
\* one of the two absent it is the 500 response of the outer handler.  A
\* supplier request of low density gets a warning and goes on to the engine.
C2_DensityGate ==
    /\ (Ended /\ ValidatorPasses /\ DensityBelowThreshold)
        => IF data.op = "demand"
           THEN /\ ~EngineInvoked /\ forecast_result = <<>>
                /\ response.status = (IF SchemaValid THEN 400 ELSE 500)
                /\ response.error =
                     (IF ~SchemaValid THEN "Fatal error"
                      ELSE IF AnyNull(History, "demand") THEN "Missing demand values detected"
                      ELSE IF ~AllNumeric(History, "demand")
                      THEN "Non-numeric demand values detected"
                      ELSE "Insufficient data density")
           ELSE EngineInvoked
    /\ (data.op = "supplier" /\ SchemaValid /\ DensityBelowThreshold
            /\ pc \notin {"Validating", "QualityChecking"})
        => "Low data density" \in Range(warnings)

C2_Witness ==
    /\ data.op = "demand" /\ Ended /\ SchemaValid /\ TargetClean /\ DensityBelowThreshold
    /\ response.status = 400 /\ response.error = "Insufficient data density"

\* C3 as stated: for mti and inflation alike, future values supplied by the
\* caller are used verbatim and the engine is not asked to project.
C3_SuppliedBypassesProjection ==
    \A name \in {"mti", "inflation"} :
        (data.op = "demand" /\ name \in Range(regressors_added) /\ CallerSupplied(name))
            => /\ Lookup(name) = data.futureRegressors[name].values
               /\ ~Called("fit", name) /\ ~Called("predict", name)

\* C3 amended: future mti values supplied by the caller are used verbatim and
\* the engine is not asked to project mti; inflation is always projected by
\* the engine, whatever the caller supplied.
C3_SuppliedMtiBypassesProjection ==
    /\ (data.op = "demand" /\ "mti" \in Range(regressors_added) /\ CallerSupplied("mti"))
        => /\ Lookup("mti") = data.futureRegressors.mti.values
           /\ ~Called("fit", "mti") /\ ~Called("predict", "mti")
    /\ (data.op = "demand" /\ "inflation" \in Range(regressors_added))
        => Called("fit", "inflation")

C3_Witness ==
    /\ data.op = "demand" /\ response.status = 200
    /\ CallerSupplied("mti") /\ "mti" \in Range(regressors_added)
    /\ CallerSupplied("inflation") /\ "inflation" \in Range(regressors_added)

LengthMismatch ==
    \E i \in 1..Len(future_regressors) : Len(future_regressors[i][2]) # FuturePeriods
FlatYhat(k) ==
    \/ forecast[k].n < 2
    \/ \A i \in 1..forecast[k].n : forecast[k].frame.row[i][1] = forecast[k].frame.row[1][1]
C5_StrengthsInUnitInterval ==
    response.status = 200 =>
        /\ InUnitInterval(response.metadata.seasonalityStrength)
        /\ InUnitInterval(response.metadata.trendStrength)
        /\ (\A k \in 1..Len(forecast) : FlatYhat(k))
            => /\ response.metadata.seasonalityStrength[1] = 0
               /\ response.metadata.trendStrength[1] = 0

C5_Witness ==
    /\ response.status = 200
    /\ forecast[1].n >= 2 /\ \A k \in 1..Len(forecast) : FlatYhat(k)
    /\ forecast[1].frame.yearly /\ forecast[1].frame.yearlyStd > 0

\* C6: in a successful supplier response every value, lower and upper of both
\* forecasts lies in [0, 1]: what the engine returned, raised to 0 when below
\* and lowered to 1 when above.
Clamped(out, v) ==
    /\ 0 <= out /\ out <= Unit
    /\ (0 <= v /\ v <= Unit) => out = v
    /\ v < 0 => out = 0
    /\ v > Unit => out = Unit
SeriesClamped(rows, k) ==
    \A i \in 1..Len(rows) :
        /\ Clamped(rows[i].value, engine.frames[k].row[i][1])
        /\ Clamped(rows[i].lower, engine.frames[k].row[i][2])
        /\ Clamped(rows[i].upper, engine.frames[k].row[i][3])
C6_SupplierRowsClamped ==
    (data.op = "supplier" /\ response.status = 200)
        => /\ SeriesClamped(response.qualityForecast, 1)
           /\ SeriesClamped(response.leadTimeForecast, 2)

C6_Witness ==
    /\ data.op = "supplier" /\ response.status = 200
    /\ \E i \in 1..FuturePeriods :
         /\ engine.frames[2].row[i][1] > Unit /\ engine.frames[2].row[i][2] < 0
         /\ response.leadTimeForecast[i].value = Unit
         /\ response.leadTimeForecast[i].lower = 0

\* C7: every request reaches a terminal stage, with exactly one response of
\* the shape of that stage, and nothing runs after it.
OutcomeShaped ==
    /\ Ended <=> Responded
    /\ pc = "Done" => response.status = 200
    /\ pc = "Rejected" =>
         response.status = 400 /\ DOMAIN response = {"status", "error", "details"}
    /\ pc = "Failed" =>
         response.status = 500 /\ DOMAIN response = {"status", "error", "details", "type"}
C8_EngineErrorsAreServerErrors ==
    (Ended /\ EngineInvoked /\ response.status # 200)
        => /\ response.status = 500
           /\ DOMAIN response = {"status", "error", "details", "type"}

\* C9: the gap diagnostics never end a request (a request that passes the
\* validator, the target checks and the density gate goes on to the engine),
\* and a series without a delta above seven days records no gap.
NoLargeDelta ==
    \A d \in Dates(History) :
        \/ d = Min(Dates(History))
        \/ \E e \in Dates(History) : e < d /\ d - e <= 7
PassedGate ==
    SchemaValid /\ (data.op = "demand" => TargetClean /\ ~DensityBelowThreshold)
C9_GapsNeverReject ==
    /\ (Ended /\ PassedGate) => EngineInvoked
    /\ (PassedGate /\ pc \notin {"Validating", "QualityChecking"} /\ NoLargeDelta)
        => gaps.found = 0 /\ gaps.lines = <<>>

\* C10: a successful demand response has futurePeriods forecast rows, on the
\* consecutive days after the latest historical date, each carrying the
\* engine's yhat, yhat_lower and yhat_upper unchanged, and a confidence
\* interval of 0.95.
C10_DemandForecastRows ==
    (data.op = "demand" /\ response.status = 200)
        => /\ Len(response.forecast) = FuturePeriods
           /\ \A i \in 1..Len(response.forecast) :
                /\ response.forecast[i].date = Max(Dates(History)) + i
                /\ response.forecast[i].value = engine.frames[1].row[i][1]
                /\ response.forecast[i].lower = engine.frames[1].row[i][2]
                /\ response.forecast[i].upper = engine.frames[1].row[i][3]
           /\ response.metadata.confidenceInterval = 95

C10_Witness ==
    /\ data.op = "demand" /\ response.status = 200 /\ FuturePeriods >= 2
    /\ response.forecast[2].value > Unit /\ response.forecast[2].lower < 0

\* C11 as stated: null or non-numeric values in qualityRating or
\* leadTimeReliability never end a supplier request: with an engine that
\* raises nothing, the request ends with a 200 response whose two forecasts
\* have futurePeriods rows each.
NumericRows(c) == SelectSeq(History, LAMBDA p : p[c] = "num")
Dirty(c) == \E i \in 1..Len(History) : History[i][c] # "num"
Quantities == <<"qualityRating", "leadTimeReliability">>
RowsFilled(rows) ==
    /\ Len(rows) = FuturePeriods
    /\ \A i \in 1..Len(rows) : {rows[i].value, rows[i].lower, rows[i].upper} \subseteq 0..Unit
C11_DirtyCellsNeverEndRequest ==
    (data.op = "supplier" /\ Ended /\ SchemaValid /\ FuturePeriods >= 1
        /\ engine.fail = NoFailure /\ (Dirty(Quantities[1]) \/ Dirty(Quantities[2])))
        => /\ response.status = 200
           /\ RowsFilled(response.qualityForecast)
           /\ RowsFilled(response.leadTimeForecast)

\* C11 amended: in a supplier request the points whose qualityRating is null
\* or non-numeric are dropped from the quality series only, and likewise for
\* leadTimeReliability, each quantity being cleaned on its own.  When at least
\* two points remain for each quantity, futurePeriods is at least 1 and the
\* engine raises nothing, the request ends with a 200 response whose two
\* forecasts have futurePeriods rows each, without null values.  When fewer
\* than two points remain for a quantity, the fit of that quantity raises and
\* the request ends there with the 400 "Data processing error" response.
C11_CleanedPerQuantity ==
    (data.op = "supplier" /\ SchemaValid)
        => /\ \A k \in 1..Len(sub_series) : sub_series[k] = NumericRows(Quantities[k])
           /\ (Ended /\ FuturePeriods >= 1 /\ engine.fail = NoFailure)
                => IF Len(NumericRows(Quantities[1])) < 2
                   THEN /\ response.status = 400
                        /\ response.error = "Data processing error"
                        /\ calls = <<<<"fit", Quantities[1]>>>>
                   ELSE IF Len(NumericRows(Quantities[2])) < 2
                   THEN /\ response.status = 400
                        /\ response.error = "Data processing error"
                        /\ calls[Len(calls)] = <<"fit", Quantities[2]>>
                        /\ Len(forecast_result) = 1
                   ELSE /\ response.status = 200
                        /\ RowsFilled(response.qualityForecast)
                        /\ RowsFilled(response.leadTimeForecast)

C11_Witness ==
    /\ data.op = "supplier" /\ response.status = 200
    /\ Dirty(Quantities[1]) /\ Dirty(Quantities[2])
    /\ Len(sub_series[1]) < Len(History)
    /\ Len(sub_series[2]) < Len(History)
    /\ sub_series[1] # sub_series[2]
    /\ RowsFilled(response.qualityForecast)

\* C12: a history of n >= 1 points on n distinct consecutive days, in any
\* input order, has density n / (day span + 1) = 1.0 in both operations: it
\* passes the density gate of the demand operation and gets no density
\* warning in the supplier operation; a single point has span 0, one expected
\* point and density 1.0.
ConsecutiveDays(pts) ==
    /\ Len(pts) >= 1
    /\ Cardinality(Dates(pts)) = Len(pts)
    /\ \A d \in Min(Dates(pts))..Max(Dates(pts)) : d \in Dates(pts)
DensityRejected ==
    response.status = 400 /\ response.error = "Insufficient data density"
C12_ConsecutiveDaysDensityOne ==
    (ValidatorPasses /\ ConsecutiveDays(History))
        => /\ DensityIsOne(History)
           /\ ~LowDensity(History)
           /\ Len(History) = 1 => (date_range(History) = 0 /\ expected_points(History) = 1)
           /\ ~DensityRejected
           /\ "Low data density" \notin Range(warnings)

C12_Witness ==
    /\ ConsecutiveDays(History) /\ Len(History) = MaxPoints
    /\ History[1].date > History[Len(History)].date
    /\ History[2].date < History[Len(History)].date
    /\ EngineInvoked

\* C14: the engine calls of a demand request come in two phases.  Each call
\* is made at most once; a regressor is projected only when its column is in
\* the history, its fit followed by its predict, and both come before the
\* primary fit; after the primary fit only the primary predict follows; a
\* successful request has fit and predicted the primary model; and no engine
\* call is made unless the request passed schema validation, the null and
\* non-numeric checks of the target and the density check.
Regressors == {"mti", "inflation"}
Position(call) == CHOOSE i \in 1..Len(calls) : calls[i] = call
C14_TwoPhaseEngineCalls ==
    data.op = "demand" =>
        /\ \A i, j \in 1..Len(calls) : i < j => calls[i] # calls[j]
        /\ \A i, j \in 1..Len(calls) :
             (i < j /\ calls[i][2] = "demand") => calls[j] = <<"predict", "demand">>
        /\ \A r \in Regressors :
             /\ Called("fit", r) => HasColumn(History, r)
             /\ Called("predict", r)
                  => Called("fit", r) /\ Position(<<"fit", r>>) < Position(<<"predict", r>>)
             /\ (Called("fit", r) /\ Called("fit", "demand")) => Called("predict", r)
        /\ Called("predict", "demand")
             => /\ Called("fit", "demand")
                /\ Position(<<"fit", "demand">>) < Position(<<"predict", "demand">>)
        /\ response.status = 200 => Called("fit", "demand") /\ Called("predict", "demand")
        /\ EngineInvoked => SchemaValid /\ TargetClean /\ ~DensityBelowThreshold

C14_Witness ==
    /\ data.op = "demand" /\ response.status = 200
    /\ calls = << <<"fit", "mti">>, <<"predict", "mti">>,
                  <<"fit", "inflation">>, <<"predict", "inflation">>,
                  <<"fit", "demand">>, <<"predict", "demand">> >>

\* C15: in a successful demand response whose forecast has a defined spread
\* of yhat above zero and a defined spread of trend, trendStrength is
\* min(1, |stddev(trend) / stddev(yhat)|), whether or not the forecast frame
\* has a yearly component.
SameFraction(x, y) == x[1] * y[2] = y[1] * x[2]
TrendRatio(f) ==
    IF f.frame.trendStd > f.frame.spread THEN <<1, 1>>
    ELSE <<f.frame.trendStd, f.frame.spread>>
C15_TrendStrengthFromTrend ==
    (data.op = "demand" /\ response.status = 200 /\ ~FlatYhat(1))
        => SameFraction(response.metadata.trendStrength, TrendRatio(forecast[1]))

\* C16: in a successful demand response a regressor is listed in
\* debugInfo.generatedRegressors exactly when its future values were
\* projected by the engine in this request, and futureRegressors holds an
\* empty array for each regressor the history does not carry.
Projected(r) == Called("fit", r) /\ Called("predict", r)
C16_GeneratedMeansProjected ==
    (data.op = "demand" /\ response.status = 200)
        => \A r \in Regressors :
             /\ r \in Range(response.debugInfo.generatedRegressors) <=> Projected(r)
             /\ ~HasColumn(History, r) => response.futureRegressors[r] = <<>>

\* C13: a request served together with another request, in any interleaving
\* of the two handlers, gets the response it gets when served alone.
C13_ResponseAsAlone ==
    sched.phase = "together" =>
        /\ (sched.running = 1 /\ Ended) => response = sched.alone
        /\ (sched.running = 2 /\ sched.parked.pc \in Terminal)
             => sched.parked.response = sched.alone

====
